---- MODULE Spec2Model ----
(***************************************************************************)
(* Zone-file lexer and parser of godns (zscan.go, dns.go).                 *)
(*                                                                         *)
(* Text is a sequence of one-character strings.  text/scanner is used with *)
(* Mode = 0 and Whitespace = 0, so every Scan() yields one character.      *)
(* A uint32 is held as the 32-bit two's-complement integer with the same   *)
(* bit pattern: x itself below 2^31, x - 2^32 from 2^31 on.                *)
(*                                                                         *)
(* Goroutines: one parser (the chain of nested parseZone calls, `stack'),  *)
(* one lexer per parseZone call (`lexers'), and the consumer of the output *)
(* channel t.  Both channels are unbuffered: a send is a rendezvous.       *)
(***************************************************************************)
EXTENDS Integers, Sequences, FiniteSets, TLC

VARIABLES
    zone,      \* the input: the lines of the reader r and of the file "f"
    lexers,    \* the zlexer goroutines, in the order they were started
    stack,     \* the parseZone invocations, outermost first
    out,       \* the items the consumer has received from t, in order
    tclosed,   \* how many times close(t) was executed
    handles,   \* how many files opened by os.Open are open
    rets,      \* what the calls of ReadRR have returned, in order
    rrset,     \* an RRset, as the headers of its members
    ret        \* the last call of Push or Pop on rrset and what it returned

vars == <<zone, lexers, stack, out, tclosed, handles, rets, rrset, ret>>

(***************************************************************************)
(* Bounds of the model.                                                    *)
(***************************************************************************)
MaxLines == 2
MaxRaw == 3
MaxQuoted == 2
MaxBreaks == 2
MaxSet == 3

(***************************************************************************)
(* Program constants.                                                      *)
(***************************************************************************)
DefaultTtl == 3600
ClassINET == 1
MaxInclude == 7
MaxNameLen == 255
MaxLabelLen == 63

(***************************************************************************)
(* Characters and strings.                                                 *)
(***************************************************************************)
Lower == <<"a","b","c","d","e","f","g","h","i","j","k","l","m",
           "n","o","p","q","r","s","t","u","v","w","x","y","z">>
Upper == <<"A","B","C","D","E","F","G","H","I","J","K","L","M",
           "N","O","P","Q","R","S","T","U","V","W","X","Y","Z">>
Digits == <<"0","1","2","3","4","5","6","7","8","9">>

Range(s) == {s[i] : i \in DOMAIN s}

IsLower(c) == c \in Range(Lower)
IsUpper(c) == c \in Range(Upper)
IsDigit(c) == c \in Range(Digits)

IndexOf(s, c) == CHOOSE i \in DOMAIN s : s[i] = c

DigitVal(c) == IndexOf(Digits, c) - 1

\* strings.ToUpper
ToUpper(s) == [i \in DOMAIN s |-> IF IsLower(s[i]) THEN Upper[IndexOf(Lower, s[i])] ELSE s[i]]

\* strconv.Atoi: an optional sign, then one or more decimal digits.
RECURSIVE DigitsVal(_, _)
DigitsVal(s, acc) ==
    IF s = <<>> THEN acc ELSE DigitsVal(Tail(s), 10 * acc + DigitVal(Head(s)))

Atoi(s) ==
    LET body == IF s # <<>> /\ Head(s) \in {"+", "-"} THEN Tail(s) ELSE s
        good == body # <<>> /\ \A i \in DOMAIN body : IsDigit(body[i])
    IN  IF ~good THEN [ok |-> FALSE, val |-> 0]
        ELSE [ok |-> TRUE,
              val |-> IF Head(s) = "-" THEN 0 - DigitsVal(body, 0) ELSE DigitsVal(body, 0)]

\* IsFqdn
IsFqdn(s) == IF Len(s) = 0 THEN FALSE ELSE s[Len(s)] = "."

\* Fqdn
Fqdn(s) == IF IsFqdn(s) THEN s ELSE s \o <<".">>

\* IsDomainName: the loop over the bytes of Fqdn(s); st = [last, ok, partlen, bad].
NameLoopStep(st, c) ==
    IF st.bad THEN st
    ELSE IF IsLower(c) \/ IsUpper(c) \/ c = "_" \/ c = "*"
         THEN [st EXCEPT !.ok = TRUE, !.partlen = @ + 1, !.last = c]
    ELSE IF c = "\\" THEN [st EXCEPT !.last = c]
    ELSE IF IsDigit(c) THEN [st EXCEPT !.partlen = @ + 1, !.last = c]
    ELSE IF c = "-"
         THEN IF st.last = "." THEN [st EXCEPT !.bad = TRUE]
              ELSE [st EXCEPT !.partlen = @ + 1, !.last = c]
    ELSE IF c = "."
         THEN IF st.last = "." \/ st.last = "-" THEN [st EXCEPT !.bad = TRUE]
              ELSE IF st.last = "\\" THEN [st EXCEPT !.partlen = @ + 1, !.last = c]
              ELSE IF st.partlen > MaxLabelLen \/ st.partlen = 0
                   THEN [st EXCEPT !.bad = TRUE]
              ELSE [st EXCEPT !.partlen = 0, !.last = c]
    ELSE [st EXCEPT !.bad = TRUE]

RECURSIVE NameLoop(_, _)
NameLoop(s, st) == IF s = <<>> THEN st ELSE NameLoop(Tail(s), NameLoopStep(st, Head(s)))

IsDomainName(s) ==
    IF Len(s) = 0 \/ Len(s) > MaxNameLen THEN FALSE
    ELSE LET r == NameLoop(Fqdn(s), [last |-> ".", ok |-> FALSE, partlen |-> 0, bad |-> FALSE])
         IN  ~r.bad /\ r.ok

\* net.ParseIP, for the dotted-decimal IPv4 form: four numbers 0..255.
RECURSIVE SplitDots(_, _, _)
SplitDots(s, cur, acc) ==
    IF s = <<>> THEN Append(acc, cur)
    ELSE IF Head(s) = "." THEN SplitDots(Tail(s), <<>>, Append(acc, cur))
    ELSE SplitDots(Tail(s), Append(cur, Head(s)), acc)

ParseIP(s) ==
    LET parts == SplitDots(s, <<>>, <<>>)
        good == /\ Len(parts) = 4
                /\ \A i \in 1..4 : /\ parts[i] # <<>>
                                   /\ Len(parts[i]) <= 3
                                   /\ \A j \in DOMAIN parts[i] : IsDigit(parts[i][j])
                                   /\ DigitsVal(parts[i], 0) <= 255
    IN  IF good THEN [ok |-> TRUE, ip |-> [i \in 1..4 |-> DigitsVal(parts[i], 0)]]
        ELSE [ok |-> FALSE, ip |-> <<>>]

(***************************************************************************)
(* The tables of RR type and class names.                                  *)
(***************************************************************************)
TypeA == 1
TypeSOA == 6
TypePTR == 12
TypeMX == 15
TypeTXT == 16

Str_rr ==
    (<<"A">> :> TypeA) @@ (<<"P","T","R">> :> TypePTR) @@ (<<"M","X">> :> TypeMX) @@
    (<<"T","X","T">> :> TypeTXT) @@ (<<"S","O","A">> :> TypeSOA)

ClassCHAOS == 3

Str_class == (<<"I","N">> :> ClassINET) @@ (<<"C","H">> :> ClassCHAOS)

(***************************************************************************)
(* zlexer.  A lexer holds its reader (rd: the characters not yet scanned,  *)
(* line/col: the scanner's position), the locals of zlexer, and the sends  *)
(* it still has to complete for the character it scanned (outq: it is      *)
(* blocked on the first of them).  pc: "scan" in the loop, "tail" after    *)
(* the loop (the deferred close(c) is still to run), "closed".             *)
(* History, kept for the properties: ch is the character being handled     *)
(* ("" at the end of the input), incommt whether commt was set when it was *)
(* read, recv the last two tokens received from c, each with the paren     *)
(* depth, the character and the comment flag at its send, nlline the line  *)
(* of the last _NEWLINE token received from c (0: none), qline the line of *)
(* the last '"' that switched quote, inrdata whether a _RRTYPE token and   *)
(* no _NEWLINE token after it was received from c.                         *)
(***************************************************************************)
Lex(tok, err, val, line, col) ==
    [token |-> tok, err |-> err, value |-> val, line |-> line, column |-> col]

\* the zero value of lex, which a receive from a closed channel yields
ZeroLex == Lex(<<>>, "", "_EOF", 0, 0)

NewLexer(text) ==
    [rd |-> text, line |-> 1, col |-> 1, l |-> ZeroLex, str |-> <<>>,
     quote |-> FALSE, escape |-> FALSE, space |-> FALSE, commt |-> FALSE,
     rrtype |-> FALSE, owner |-> TRUE, brace |-> 0, outq |-> <<>>, pc |-> "scan",
     ch |-> "", incommt |-> FALSE, recv |-> <<>>, nlline |-> 0, qline |-> 0,
     inrdata |-> FALSE]

\* c <- l
LexSend(z) == [z EXCEPT !.outq = Append(@, z.l)]

SetTok(z, val, tok) == [z EXCEPT !.l.value = val, !.l.token = tok]

DirectiveOrOwner(str) ==
    IF str = <<"$","T","T","L">> THEN "_DIRTTL"
    ELSE IF str = <<"$","O","R","I","G","I","N">> THEN "_DIRORIGIN"
    ELSE IF str = <<"$","I","N","C","L","U","D","E">> THEN "_DIRINCLUDE"
    ELSE "_OWNER"

\* case " ", "\t"
LexBlank(z0) ==
    LET z == [z0 EXCEPT !.escape = FALSE]
    IN  IF z.commt THEN z
        ELSE
        LET up == ToUpper(z.str)
            isrr == ~z.rrtype /\ up \in DOMAIN Str_rr
            iscl == ~z.rrtype /\ up \in DOMAIN Str_class
            z1 == IF z.str = <<>> THEN z
                  ELSE IF z.owner THEN LexSend(SetTok(z, DirectiveOrOwner(z.str), z.str))
                  ELSE LexSend(SetTok([z EXCEPT !.rrtype = @ \/ isrr],
                                      IF iscl THEN "_CLASS"
                                      ELSE IF isrr THEN "_RRTYPE" ELSE "_STRING",
                                      z.str))
            z2 == [z1 EXCEPT !.str = <<>>]
            z3 == IF ~z2.space /\ ~z2.commt THEN LexSend(SetTok(z2, "_BLANK", <<" ">>)) ELSE z2
        IN  [z3 EXCEPT !.owner = FALSE, !.space = TRUE]

\* case ";"
LexSemicolon(z) ==
    IF z.escape THEN [z EXCEPT !.escape = FALSE, !.str = Append(@, ";")]
    ELSE IF z.quote THEN [z EXCEPT !.str = Append(@, ";")]
    ELSE [z EXCEPT !.commt = TRUE]

\* mutant: the newline that ends a comment gives a _NEWLINE inside parentheses too
LexNewlineAnyDepth(z0) ==
    LET z == [z0 EXCEPT !.escape = FALSE]
    IN  IF z.commt
        THEN LexSend(SetTok([z EXCEPT !.commt = FALSE, !.rrtype = FALSE, !.str = <<>>,
                                      !.owner = TRUE], "_NEWLINE", <<"\n">>))
        ELSE
        LET isrr == ~z.rrtype /\ ToUpper(z.str) \in DOMAIN Str_rr
            z1 == IF z.str # <<>>
                  THEN LexSend(SetTok([z EXCEPT !.rrtype = @ \/ isrr],
                                      IF isrr THEN "_RRTYPE" ELSE "_STRING", z.str))
                  ELSE z
            z2 == IF z1.brace > 0
                  THEN LET b == SetTok(z1, "_BLANK", <<" ">>)
                       IN  IF ~b.space THEN LexSend(b) ELSE b
                  ELSE LexSend(SetTok(z1, "_NEWLINE", <<"\n">>))
            z3 == IF z2.l.value = "_BLANK" THEN [z2 EXCEPT !.space = TRUE] ELSE z2
        IN  [z3 EXCEPT !.str = <<>>, !.commt = FALSE, !.rrtype = FALSE, !.owner = TRUE]

\* case "\n"
LexNewline(z0) ==
    LET z == [z0 EXCEPT !.escape = FALSE]
    IN  IF z.commt
        THEN LET z1 == [z EXCEPT !.commt = FALSE, !.rrtype = FALSE, !.str = <<>>]
             IN  IF z1.brace = 0
                 THEN LexSend(SetTok([z1 EXCEPT !.owner = TRUE], "_NEWLINE", <<"\n">>))
                 ELSE z1
        ELSE
        LET isrr == ~z.rrtype /\ ToUpper(z.str) \in DOMAIN Str_rr
            z1 == IF z.str # <<>>
                  THEN LexSend(SetTok([z EXCEPT !.rrtype = @ \/ isrr],
                                      IF isrr THEN "_RRTYPE" ELSE "_STRING", z.str))
                  ELSE z
            z2 == IF z1.brace > 0
                  THEN LET b == SetTok(z1, "_BLANK", <<" ">>)
                       IN  IF ~b.space THEN LexSend(b) ELSE b
                  ELSE LexSend(SetTok(z1, "_NEWLINE", <<"\n">>))
            z3 == IF z2.l.value = "_BLANK" THEN [z2 EXCEPT !.space = TRUE] ELSE z2
        IN  [z3 EXCEPT !.str = <<>>, !.commt = FALSE, !.rrtype = FALSE, !.owner = TRUE]

\* case "\\"
LexBackslash(z) ==
    IF z.commt THEN z
    ELSE IF z.escape THEN [z EXCEPT !.str = Append(@, "\\"), !.escape = FALSE]
    ELSE [z EXCEPT !.str = Append(@, "\\"), !.escape = TRUE]

\* case "\""
LexQuote(z) ==
    IF z.commt THEN z
    ELSE IF z.escape THEN [z EXCEPT !.str = Append(@, "\""), !.escape = FALSE]
    ELSE [z EXCEPT !.quote = ~@, !.qline = z.l.line]

\* mutant: a "(" is not counted
LexOpenNotCounted(z) ==
    IF z.commt THEN z
    ELSE IF z.escape THEN [z EXCEPT !.str = Append(@, "("), !.escape = FALSE]
    ELSE z

\* case "("
LexOpen(z) ==
    IF z.commt THEN z
    ELSE IF z.escape THEN [z EXCEPT !.str = Append(@, "("), !.escape = FALSE]
    ELSE [z EXCEPT !.brace = @ + 1]

\* case ")": on underflow the error is sent and zlexer returns
LexClose(z) ==
    IF z.commt THEN z
    ELSE IF z.escape THEN [z EXCEPT !.str = Append(@, ")"), !.escape = FALSE]
    ELSE IF z.brace - 1 < 0
         THEN [LexSend([z EXCEPT !.brace = @ - 1, !.l.err = "Extra closing brace"])
                  EXCEPT !.pc = "tail"]
    ELSE [z EXCEPT !.brace = @ - 1]

\* default
LexDefault(z, x) ==
    IF z.commt THEN z
    ELSE [z EXCEPT !.escape = FALSE, !.str = Append(@, x), !.space = FALSE]

\* one iteration of the loop of zlexer on the character x
LexChar(z, x) ==
    CASE x \in {" ", "\t"} -> LexBlank(z)
      [] x = ";"  -> LexSemicolon(z)
      [] x = "\n" -> LexNewline(z)
      [] x = "\\" -> LexBackslash(z)
      [] x = "\"" -> LexQuote(z)
      [] x = "("  -> LexOpen(z)
      [] x = ")"  -> LexClose(z)
      [] OTHER    -> LexDefault(z, x)

\* mutant: zlexer returns without closing c
LexEofNoClose(z) ==
    IF Len(z.str) > 0
    THEN [LexSend(SetTok(z, "_STRING", z.str)) EXCEPT !.pc = "tail"]
    ELSE [z EXCEPT !.pc = "exited"]

\* after the loop: the remainder is sent as a _STRING; then close(c) runs
LexEof(z) ==
    IF Len(z.str) > 0
    THEN [LexSend(SetTok(z, "_STRING", z.str)) EXCEPT !.pc = "tail"]
    ELSE [z EXCEPT !.pc = "closed"]

\* a step of a lexer that is not blocked on a send
LexAdvance(z) ==
    IF z.pc = "tail" THEN [z EXCEPT !.pc = "closed"]
    ELSE IF z.rd = <<>> THEN LexEof([z EXCEPT !.ch = "", !.incommt = z.commt])
    ELSE LET x == Head(z.rd)
             p == [z EXCEPT !.l.line = z.line, !.l.column = z.col, !.rd = Tail(@),
                            !.line = IF x = "\n" THEN @ + 1 ELSE @,
                            !.col = IF x = "\n" THEN 1 ELSE @ + 1,
                            !.ch = x, !.incommt = z.commt]
         IN  LexChar(p, x)

(***************************************************************************)
(* The inputs.  A line is described by a record and rendered to text; the  *)
(* reader r holds the rendering of zone.main, the file "f" (the only file  *)
(* that exists) the rendering of zone.f.                                   *)
(***************************************************************************)
NoWord == <<>>

RRLine(owner, ttl, class, swap, type, arg) ==
    [kind |-> "rr", owner |-> owner, ttl |-> ttl, class |-> class, swap |-> swap,
     type |-> type, arg |-> arg]

DirLine(kind, arg) ==
    [kind |-> kind, owner |-> NoWord, ttl |-> NoWord, class |-> NoWord, swap |-> FALSE,
     type |-> NoWord, arg |-> arg]

\* a text given character by character
RawLine(text) == DirLine("raw", text)

\* a TXT record whose rdata is the quoted string s
QuotedLine(s) == DirLine("quoted", s)

\* a record whose fields from number open on stand inside parentheses, with
\* gaps[k] before the k-th of them and the last of gaps before the ")"
ParenLine(owner, class, type, fields, open, gaps) ==
    [kind |-> "paren", owner |-> owner, ttl |-> NoWord, class |-> class, swap |-> FALSE,
     type |-> type, arg |-> fields, open |-> open, gaps |-> gaps]

Field(w) == IF w = NoWord THEN <<>> ELSE w \o <<" ">>

RECURSIVE Words(_)
Words(ws) == IF ws = <<>> THEN <<>> ELSE Field(Head(ws)) \o Words(Tail(ws))

RECURSIVE Spread(_, _)
Spread(ws, gaps) ==
    IF ws = <<>> THEN Head(gaps)
    ELSE Head(gaps) \o Head(ws) \o Spread(Tail(ws), Tail(gaps))

Render(d) ==
    CASE d.kind = "rr" ->
            d.owner \o <<" ">>
            \o (IF d.swap THEN Field(d.class) \o Field(d.ttl)
                          ELSE Field(d.ttl) \o Field(d.class))
            \o d.type \o <<" ">> \o d.arg \o <<"\n">>
      [] d.kind = "ttl"     -> <<"$","T","T","L"," ">> \o d.arg \o <<"\n">>
      [] d.kind = "origin"  -> <<"$","O","R","I","G","I","N"," ">> \o d.arg \o <<"\n">>
      [] d.kind = "include" -> <<"$","I","N","C","L","U","D","E"," ">> \o d.arg \o <<"\n">>
      [] d.kind = "raw"     -> d.arg
      [] d.kind = "quoted"  -> <<"b"," ","T","X","T"," ","\"">> \o d.arg \o <<"\"","\n">>
      [] d.kind = "paren"   ->
            d.owner \o <<" ">> \o Field(d.class) \o d.type \o <<" ">>
            \o Words(SubSeq(d.arg, 1, d.open - 1)) \o <<"(">>
            \o Spread(SubSeq(d.arg, d.open, Len(d.arg)), d.gaps) \o <<")","\n">>

RECURSIVE Text(_)
Text(ds) == IF ds = <<>> THEN <<>> ELSE Render(Head(ds)) \o Text(Tail(ds))

FileF == <<"f">>
Addr == <<"1",".","2",".","3",".","4">>

\* the five beginnings of a record line, for a relative and a fully qualified owner
RecordLines ==
    {RRLine(o, h[1], h[2], h[3], <<"A">>, Addr) :
        o \in {<<"b">>, <<"c",".">>},
        h \in {<<NoWord, NoWord, FALSE>>, <<<<"5">>, NoWord, FALSE>>,
               <<<<"5">>, <<"C","H">>, FALSE>>, <<NoWord, <<"C","H">>, FALSE>>,
               <<<<"5">>, <<"C","H">>, TRUE>>}}

BadLine == RRLine(<<"b">>, NoWord, NoWord, FALSE, <<"A">>, <<"x">>)
TtlLine == DirLine("ttl", <<"7">>)
OriginLine == DirLine("origin", <<"d",".">>)
RelOriginLine == DirLine("origin", <<"d">>)
IncludeLine == DirLine("include", FileF)

Lines == RecordLines \cup {BadLine, TtlLine, OriginLine, RelOriginLine, IncludeLine}

LineSeqs(n) == UNION {[1..k -> Lines] : k \in 0..n}

\* the contents of the file "f"
IncFiles ==
    { <<RRLine(<<"b">>, NoWord, NoWord, FALSE, <<"A">>, Addr)>>,
      <<BadLine>>,
      <<RRLine(<<"b">>, NoWord, NoWord, FALSE, <<"A">>, Addr), IncludeLine>> }

HasInclude(ds) == \E i \in DOMAIN ds : ds[i].kind = "include"

\* the scenario of the specification's S2
ScenarioS2 ==
    << DirLine("origin", <<"m","i","e","k",".","n","l",".">>),
       DirLine("ttl", <<"3","0","0">>),
       RRLine(<<"w","w","w">>, NoWord, <<"I","N">>, FALSE, <<"A">>,
              <<"1","0",".","0",".","0",".","1">>) >>

\* a $TTL directive, a record with a TTL, a record without one
ScenarioTtl ==
    << TtlLine,
       RRLine(<<"b">>, <<"5">>, NoWord, FALSE, <<"A">>, Addr),
       RRLine(<<"c",".">>, NoWord, NoWord, FALSE, <<"A">>, Addr) >>

\* a $INCLUDE between two records
ScenarioInclude ==
    << RRLine(<<"b">>, NoWord, NoWord, FALSE, <<"A">>, Addr),
       IncludeLine,
       RRLine(<<"c",".">>, NoWord, NoWord, FALSE, <<"A">>, Addr) >>

\* a record, then a record line that begins with a blank: no owner is written
ScenarioCarryOver ==
    << RRLine(<<"b">>, NoWord, NoWord, FALSE, <<"A">>, Addr),
       RRLine(NoWord, NoWord, NoWord, FALSE, <<"A">>, Addr) >>

Scenarios == {ScenarioS2, ScenarioTtl, ScenarioInclude, ScenarioCarryOver}

\* os.Open
FileExists(name) == name = FileF

\* Texts given character by character.  RawChars are the characters zlexer
\* tells apart, "a" standing for every character of its default case; a text
\* is one of RawPrefixes (nothing, a TXT record up to its rdata, an A, an MX
\* and an SOA record with their rdata) followed by up to MaxRaw of them.
RawChars == {"a", " ", "\n", "(", ")", ";", "\"", "\\"}

Strings(S, n) == UNION {[1..k -> S] : k \in 0..n}

SoaFields == <<<<"n","s">>, <<"r","o","o","t">>, <<"1">>, <<"2">>, <<"3">>, <<"4">>, <<"5">>>>
MxFields == <<<<"1">>, <<"c">>>>

RawPrefixes ==
    {<<>>, <<"b"," ","T","X","T">>, <<"b"," ","T","X","T"," ">>,
     <<"b"," ","A"," ">> \o Addr, <<"b"," ","M","X"," ","1"," ","c">>,
     <<"b"," ","S","O","A"," ">> \o Words(SubSeq(SoaFields, 1, 6)) \o SoaFields[7]}

RawScenarios ==
    { <<"b"," ","T","X","T"," ","(","a",";","\n"," ">>,
      <<"b"," ","T","X","T"," ","(","a","\n",";","\n",")","\n">>,
      <<"b"," ","A"," ","(","\n"," ">> \o Addr \o <<"\n">>,
      <<"b","\t","A","\t">> \o Addr \o <<"\t","\n">>,
      <<"$","I","N","C","L","U","D","E"," ">> \o FileF \o <<"\n">>,
      <<"b"," ","-","1"," ","A"," ">> \o Addr \o <<"\n">>,
      <<"b"," ","5"," ","6"," ","A"," ">> \o Addr \o <<"\n">>,
      <<"b"," ","M","X"," ","1","\n","c","\n">>,
      <<"b"," ","A","\n">> \o Addr \o <<"\n">>,
      <<"$","T","T","L"," ","-","1","\n","b"," ","A"," ">> \o Addr \o <<"\n">> }

\* the characters of a quoted string
QuotedChars == {"a", " ", "\t", ";"}

\* Records with their rdata in parentheses: between two fields a blank, or a
\* line break with or without a blank before and after it, with at most
\* MaxBreaks breaks.
Gaps == {<<" ">>, <<"\n">>, <<"\n"," ">>, <<" ","\n">>}

GapSeqs(n) ==
    {g \in [1..n -> Gaps] : Cardinality({k \in 1..n : g[k] # <<" ">>}) <= MaxBreaks}

ParenInputs ==
    UNION {{ParenLine(<<"m","i","e","k",".","n","l",".">>, <<"I","N">>, <<"S","O","A">>,
                      SoaFields, o, g) : g \in GapSeqs(9 - o)} : o \in {1, 3}}
    \cup UNION {{ParenLine(<<"b">>, NoWord, <<"M","X">>, MxFields, o, g) :
                    g \in GapSeqs(4 - o)} : o \in {1, 2}}
    \cup {ParenLine(<<"b">>, NoWord, <<"A">>, <<Addr>>, 1, g) : g \in GapSeqs(2)}

RawInputs ==
    {RawLine(p \o t) : p \in RawPrefixes, t \in Strings(RawChars, MaxRaw)}
    \cup {RawLine(t) : t \in RawScenarios}
    \cup {QuotedLine(q) : q \in Strings(QuotedChars, MaxQuoted)}
    \cup ParenInputs

(***************************************************************************)
(* parseZone.  A frame holds the locals of one invocation; c is the index  *)
(* of its lexer.  pc: "range" at the head of the loop over c, "rdata" in   *)
(* setRR at a receive from c, "send" at a send on t, "call" while the      *)
(* nested parseZone runs, "ret" at the return.  History, kept for the      *)
(* properties: ownerline is the line of the last _OWNER token, got the     *)
(* values of the tokens setRR has received for the record being read       *)
(* ("err" for a token that carries an error of the lexer).                 *)
(***************************************************************************)
ZeroHeader == [Name |-> <<>>, Rrtype |-> 0, Class |-> 0, Ttl |-> 0]

NoItem == [kind |-> "none"]
NoReader == [fn |-> "none", n |-> 0, rr |-> <<>>]

NewFrame(f, include, c) ==
    [f |-> f, include |-> include, c |-> c, st |-> "_EXPECT_OWNER_DIR", h |-> ZeroHeader,
     defttl |-> DefaultTtl, origin |-> <<".">>, pc |-> "range", l |-> ZeroLex,
     rs |-> NoReader, item |-> NoItem, then |-> "none", ownerline |-> 0, got |-> <<>>]

\* t <- Token{Error: &ParseError{f, msg, l}}; return
SendError(fr, msg, l) ==
    [fr EXCEPT !.pc = "send", !.then = "return",
               !.item = [kind |-> "error", file |-> fr.f, err |-> msg, lex |-> l]]

\* t <- Token{RR: r}; st = _EXPECT_OWNER_DIR
SendRR(fr, rdata) ==
    [fr EXCEPT !.pc = "send", !.then = "next",
               !.item = [kind |-> "rr", hdr |-> fr.h, rdata |-> rdata]]

Goto(fr, st) == [fr EXCEPT !.st = st]

Uint32(v) == v
Uint16(v) == v % 65536

\* stringToTtl; on failure its caller returns after the error was sent on t
StringToTtl(l) ==
    LET a == Atoi(l.token)
    IN  IF ~a.ok THEN [ok |-> FALSE, ttl |-> 0] ELSE [ok |-> TRUE, ttl |-> Uint32(a.val)]

\* defttl = ttl; st = ...
SetDefTtl(fr, l, st) ==
    LET r == StringToTtl(l)
    IN  IF ~r.ok THEN SendError(fr, "Not a TTL", l)
        ELSE Goto([fr EXCEPT !.defttl = r.ttl], st)

\* h.Ttl = ttl; st = ...
SetHdrTtl(fr, l, st) ==
    LET r == StringToTtl(l)
    IN  IF ~r.ok THEN SendError(fr, "Not a TTL", l)
        ELSE Goto([fr EXCEPT !.h.Ttl = r.ttl], st)

SetClass(fr, l, st) ==
    LET up == ToUpper(l.token)
    IN  IF up \notin DOMAIN Str_class
        THEN SendError([fr EXCEPT !.h.Class = 0], "Unknown class", l)
        ELSE Goto([fr EXCEPT !.h.Class = Str_class[up]], st)

SetRrtype(fr, l) ==
    LET up == ToUpper(l.token)
    IN  Goto([fr EXCEPT !.h.Rrtype = IF up \in DOMAIN Str_rr THEN Str_rr[up] ELSE 0],
             "_EXPECT_RDATA")

ExpectBlank(fr, l, msg, st) ==
    IF l.value # "_BLANK" THEN SendError(fr, msg, l) ELSE Goto(fr, st)

\* mutant: the header keeps the TTL of the previous record
OwnerDirKeepTtl(fr0, l) ==
    LET fr == [fr0 EXCEPT !.h.Class = ClassINET,
                          !.h.Ttl = IF fr0.h.Name = <<>> THEN fr0.defttl ELSE @]
    IN  CASE l.value = "_NEWLINE" -> Goto(fr, "_EXPECT_OWNER_DIR")
          [] l.value = "_OWNER" ->
                LET named == [fr EXCEPT !.h.Name = l.token, !.ownerline = l.line]
                IN  IF ~IsDomainName(l.token) THEN SendError(named, "bad owner name", l)
                    ELSE Goto([named EXCEPT !.h.Name =
                                  IF ~IsFqdn(l.token) THEN l.token \o fr.origin ELSE l.token],
                              "_EXPECT_OWNER_BL")
          [] l.value = "_DIRTTL" -> Goto(fr, "_EXPECT_DIRTTL_BL")
          [] l.value = "_DIRORIGIN" -> Goto(fr, "_EXPECT_DIRORIGIN_BL")
          [] l.value = "_DIRINCLUDE" -> Goto(fr, "_EXPECT_DIRINCLUDE_BL")
          [] OTHER -> SendError(fr, "Error at the start", l)

\* case _EXPECT_OWNER_DIR
OwnerDir(fr0, l) ==
    LET fr == [fr0 EXCEPT !.h.Ttl = fr0.defttl, !.h.Class = ClassINET]
    IN  CASE l.value = "_NEWLINE" -> Goto(fr, "_EXPECT_OWNER_DIR")
          [] l.value = "_OWNER" ->
                LET named == [fr EXCEPT !.h.Name = l.token, !.ownerline = l.line]
                IN  IF ~IsDomainName(l.token) THEN SendError(named, "bad owner name", l)
                    ELSE Goto([named EXCEPT !.h.Name =
                                  IF ~IsFqdn(l.token) THEN l.token \o fr.origin ELSE l.token],
                              "_EXPECT_OWNER_BL")
          [] l.value = "_DIRTTL" -> Goto(fr, "_EXPECT_DIRTTL_BL")
          [] l.value = "_DIRORIGIN" -> Goto(fr, "_EXPECT_DIRORIGIN_BL")
          [] l.value = "_DIRINCLUDE" -> Goto(fr, "_EXPECT_DIRINCLUDE_BL")
          [] OTHER -> SendError(fr, "Error at the start", l)

\* mutant: the depth check is off by one
DirIncludeOffByOne(fr, l) ==
    IF l.value # "_STRING" THEN SendError(fr, "Expecting $INCLUDE value, not this...", l)
    ELSE IF ~FileExists(l.token) THEN SendError(fr, "Failed to open", l)
    ELSE IF fr.include > MaxInclude THEN SendError(fr, "Too deeply nested $INCLUDE", l)
    ELSE [fr EXCEPT !.pc = "call"]

\* case _EXPECT_DIRINCLUDE: os.Open, the depth check, the recursive call
DirInclude(fr, l) ==
    IF l.value # "_STRING" THEN SendError(fr, "Expecting $INCLUDE value, not this...", l)
    ELSE IF ~FileExists(l.token) THEN SendError(fr, "Failed to open", l)
    ELSE IF fr.include + 1 > MaxInclude THEN SendError(fr, "Too deeply nested $INCLUDE", l)
    ELSE [fr EXCEPT !.pc = "call"]

\* mutant: a relative $ORIGIN replaces the origin instead of extending it
DirOriginReplace(fr, l) ==
    IF l.value # "_STRING" THEN SendError(fr, "Expecting $ORIGIN value, not this...", l)
    ELSE [fr EXCEPT !.origin = l.token]

\* case _EXPECT_DIRORIGIN
DirOrigin(fr, l) ==
    IF l.value # "_STRING" THEN SendError(fr, "Expecting $ORIGIN value, not this...", l)
    ELSE IF ~IsFqdn(l.token) THEN [fr EXCEPT !.origin = l.token \o fr.origin]
    ELSE [fr EXCEPT !.origin = l.token]

\* case _EXPECT_ANY
ExpectAny(fr, l) ==
    CASE l.value = "_RRTYPE" -> SetRrtype(fr, l)
      [] l.value = "_CLASS" -> SetClass(fr, l, "_EXPECT_ANY_NOCLASS_BL")
      [] l.value = "_STRING" -> SetHdrTtl(fr, l, "_EXPECT_ANY_NOTTL_BL")
      [] OTHER -> SendError(fr, "Expecting RR type, TTL or class, not this...", l)

\* case _EXPECT_ANY_NOTTL: the switch has no default
ExpectAnyNoTtl(fr, l) ==
    CASE l.value = "_CLASS" -> SetClass(fr, l, "_EXPECT_RRTYPE_BL")
      [] l.value = "_RRTYPE" -> SetRrtype(fr, l)
      [] OTHER -> fr

\* mutant: a TTL written after the class is accepted but not stored
ExpectAnyNoClassDropTtl(fr, l) ==
    CASE l.value = "_STRING" ->
            IF ~StringToTtl(l).ok THEN SendError(fr, "Not a TTL", l)
            ELSE Goto(fr, "_EXPECT_RRTYPE_BL")
      [] l.value = "_RRTYPE" -> SetRrtype(fr, l)
      [] OTHER -> SendError(fr, "Expecting RR type or TTL, not this...", l)

\* case _EXPECT_ANY_NOCLASS
ExpectAnyNoClass(fr, l) ==
    CASE l.value = "_STRING" -> SetHdrTtl(fr, l, "_EXPECT_RRTYPE_BL")
      [] l.value = "_RRTYPE" -> SetRrtype(fr, l)
      [] OTHER -> SendError(fr, "Expecting RR type or TTL, not this...", l)

\* case _EXPECT_RDATA: the entry of setRR, up to its first receive
ExpectRdata(fr, l) ==
    CASE fr.h.Rrtype = TypeA   -> [fr EXCEPT !.pc = "rdata", !.rs = [fn |-> "setA", n |-> 0, rr |-> <<>>]]
      [] fr.h.Rrtype = TypeMX  -> [fr EXCEPT !.pc = "rdata", !.rs = [fn |-> "setMX", n |-> 0, rr |-> <<>>]]
      [] fr.h.Rrtype = TypeTXT -> [fr EXCEPT !.pc = "rdata", !.rs = [fn |-> "setTXT", n |-> 0, rr |-> <<>>]]
      [] fr.h.Rrtype = TypeSOA -> [fr EXCEPT !.pc = "rdata", !.rs = [fn |-> "setSOA", n |-> 0, rr |-> <<>>]]
      [] OTHER -> SendError(fr, "Unknown RR type", l)

\* whether the token l makes parseZone open a file: os.Open succeeds on the
\* value of a $INCLUDE.  parseZone has no Close for the file it opens.
Opens(fr, l) ==
    /\ l.err = "" /\ fr.st = "_EXPECT_DIRINCLUDE"
    /\ l.value = "_STRING" /\ FileExists(l.token)

\* the body of the loop of parseZone for the token l
ParseToken(fr0, l) ==
    LET fr == [fr0 EXCEPT !.l = l]
        st == fr.st
    IN  IF l.err # "" THEN SendError(fr, l.err, l)
        ELSE
        CASE st = "_EXPECT_OWNER_DIR" -> OwnerDir(fr, l)
          [] st = "_EXPECT_DIRINCLUDE_BL" ->
                ExpectBlank(fr, l, "No blank after $INCLUDE-directive", "_EXPECT_DIRINCLUDE")
          [] st = "_EXPECT_DIRINCLUDE" -> DirInclude(fr, l)
          [] st = "_EXPECT_DIRTTL_BL" ->
                ExpectBlank(fr, l, "No blank after $TTL-directive", "_EXPECT_DIRTTL")
          [] st = "_EXPECT_DIRTTL" ->
                IF l.value # "_STRING"
                THEN SendError(fr, "Expecting $TTL value, not this...", l)
                ELSE SetDefTtl(fr, l, "_EXPECT_OWNER_DIR")
          [] st = "_EXPECT_DIRORIGIN_BL" ->
                ExpectBlank(fr, l, "No blank after $ORIGIN-directive", "_EXPECT_DIRORIGIN")
          [] st = "_EXPECT_DIRORIGIN" -> DirOrigin(fr, l)
          [] st = "_EXPECT_OWNER_BL" -> ExpectBlank(fr, l, "No blank after owner", "_EXPECT_ANY")
          [] st = "_EXPECT_ANY" -> ExpectAny(fr, l)
          [] st = "_EXPECT_ANY_NOCLASS_BL" ->
                ExpectBlank(fr, l, "No blank before NOCLASS", "_EXPECT_ANY_NOCLASS")
          [] st = "_EXPECT_ANY_NOTTL_BL" ->
                ExpectBlank(fr, l, "No blank before NOTTL", "_EXPECT_ANY_NOTTL")
          [] st = "_EXPECT_ANY_NOTTL" -> ExpectAnyNoTtl(fr, l)
          [] st = "_EXPECT_ANY_NOCLASS" -> ExpectAnyNoClass(fr, l)
          [] st = "_EXPECT_RRTYPE_BL" -> ExpectBlank(fr, l, "No blank after", "_EXPECT_RRTYPE")
          [] st = "_EXPECT_RRTYPE" ->
                IF l.value # "_RRTYPE" THEN SendError(fr, "Unknown RR type", l)
                ELSE SetRrtype(fr, l)
          [] st = "_EXPECT_RDATA" -> ExpectRdata(fr, l)

(***************************************************************************)
(* setRR and the rdata readers.  rs.fn is the function the parser is in,   *)
(* rs.n the number of receives it has done there, rs.rr the rdata so far.  *)
(***************************************************************************)
\* an error of setRR; parseZone substitutes its own token for an empty one
RdataError(fr, msg, tok) ==
    SendError(fr, msg, IF tok.token = <<>> /\ tok.value = "_EOF" THEN fr.l ELSE tok)

Slurp(fr, rr) == [fr EXCEPT !.rs = [fn |-> "slurpRemainder", n |-> 0, rr |-> rr]]

IsEnd(tok) == tok.value = "_NEWLINE" \/ tok.value = "_EOF"

\* mutant: after a blank whatever follows is accepted
SlurpRemainderLax(fr, tok) ==
    IF fr.rs.n = 0
    THEN CASE tok.value = "_BLANK" -> [fr EXCEPT !.rs.n = 1]
           [] IsEnd(tok) -> SendRR(fr, fr.rs.rr)
           [] OTHER -> RdataError(fr, "garbage after directly rdata", tok)
    ELSE SendRR(fr, fr.rs.rr)

\* slurpRemainder
SlurpRemainder(fr, tok) ==
    IF fr.rs.n = 0
    THEN CASE tok.value = "_BLANK" -> [fr EXCEPT !.rs.n = 1]
           [] IsEnd(tok) -> SendRR(fr, fr.rs.rr)
           [] OTHER -> RdataError(fr, "garbage after directly rdata", tok)
    ELSE IF ~IsEnd(tok) THEN RdataError(fr, "garbage after rdata", tok)
    ELSE SendRR(fr, fr.rs.rr)

\* setA
SetA(fr, tok) ==
    LET ip == ParseIP(tok.token)
    IN  IF ~ip.ok THEN RdataError(fr, "bad A", tok) ELSE Slurp(fr, [A |-> ip.ip])

\* setMX
SetMX(fr, tok) ==
    CASE fr.rs.n = 0 ->
            LET a == Atoi(tok.token)
            IN  IF ~a.ok THEN RdataError(fr, "bad MX Pref", tok)
                ELSE [fr EXCEPT !.rs.n = 1, !.rs.rr = [Pref |-> Uint16(a.val)]]
      [] fr.rs.n = 1 -> [fr EXCEPT !.rs.n = 2]
      [] OTHER ->
            IF ~IsDomainName(tok.token) THEN RdataError(fr, "bad MX Mx", tok)
            ELSE Slurp(fr, [Pref |-> fr.rs.rr.Pref,
                            Mx |-> IF ~IsFqdn(tok.token) THEN tok.token \o fr.origin
                                   ELSE tok.token])

\* setSOA: 13 receives; those after a field other than the last are not
\* looked at, and the mname is checked after the receive that follows it
SetSOA(fr, tok) ==
    LET n == fr.rs.n
        rr == fr.rs.rr
        a == Atoi(tok.token)
    IN  CASE n = 0 -> [fr EXCEPT !.rs.n = 1, !.rs.rr = [l |-> tok]]
          [] n = 1 ->
                IF ~IsDomainName(rr.l.token) THEN RdataError(fr, "bad SOA mname", rr.l)
                ELSE [fr EXCEPT !.rs.n = 2,
                                !.rs.rr = [Ns |-> IF ~IsFqdn(rr.l.token)
                                                  THEN rr.l.token \o fr.origin ELSE rr.l.token]]
          [] n = 2 ->
                IF ~IsDomainName(tok.token) THEN RdataError(fr, "bad SOA rname", tok)
                ELSE [fr EXCEPT !.rs.n = 3,
                                !.rs.rr = [Ns |-> rr.Ns,
                                           Mbox |-> IF ~IsFqdn(tok.token)
                                                    THEN tok.token \o fr.origin ELSE tok.token,
                                           p |-> <<>>]]
          [] n \in {3, 5, 7, 9, 11} -> [fr EXCEPT !.rs.n = n + 1]
          [] n \in {4, 6, 8, 10} ->
                IF ~a.ok THEN RdataError(fr, "bad SOA zone parameter", tok)
                ELSE [fr EXCEPT !.rs.n = n + 1, !.rs.rr.p = Append(@, Uint32(a.val))]
          [] OTHER ->
                IF ~a.ok THEN RdataError(fr, "bad SOA zone parameter", tok)
                ELSE Slurp(fr, [Ns |-> rr.Ns, Mbox |-> rr.Mbox, Serial |-> rr.p[1],
                                Refresh |-> rr.p[2], Retry |-> rr.p[3], Expire |-> rr.p[4],
                                Minttl |-> Uint32(a.val)])

\* setTXT
SetTXT(fr, tok) ==
    IF IsEnd(tok) THEN SendRR(fr, [Txt |-> fr.rs.rr])
    ELSE IF tok.value \in {"_STRING", "_BLANK"}
         THEN [fr EXCEPT !.rs.n = @ + 1, !.rs.rr = @ \o tok.token]
    ELSE RdataError(fr, "bad TXT", tok)

\* the receive `<-c' at which setRR stands, given the token it yields
RdataToken(fr, tok) ==
    CASE fr.rs.fn = "setA" -> SetA(fr, tok)
      [] fr.rs.fn = "setMX" -> SetMX(fr, tok)
      [] fr.rs.fn = "setTXT" -> SetTXT(fr, tok)
      [] fr.rs.fn = "setSOA" -> SetSOA(fr, tok)
      [] fr.rs.fn = "slurpRemainder" -> SlurpRemainder(fr, tok)

(***************************************************************************)
(* The actions.                                                            *)
(***************************************************************************)
Depth == Len(stack)
Top == stack[Depth]
TopLexer == lexers[Top.c]

SetTop(fr) == [stack EXCEPT ![Depth] = fr]

\* the lexer after the first of its sends was received; it has not moved
\* since it began the send
Received(z) ==
    LET e == [lex |-> Head(z.outq), brace |-> z.brace, ch |-> z.ch, incommt |-> z.incommt,
              inrdata |-> z.inrdata]
    IN  [z EXCEPT !.outq = Tail(@),
                  !.recv = IF Len(@) = 2 THEN <<@[2], e>> ELSE Append(@, e),
                  !.nlline = IF e.lex.err = "" /\ e.lex.value = "_NEWLINE"
                             THEN e.lex.line ELSE @,
                  !.inrdata = IF e.lex.err # "" THEN @
                              ELSE IF e.lex.value = "_RRTYPE" THEN TRUE
                              ELSE IF e.lex.value = "_NEWLINE" THEN FALSE ELSE @]

TakeToken == [lexers EXCEPT ![Top.c] = Received(@)]

\* where the item being sent comes from: the line of the $INCLUDE of every
\* enclosing invocation, then the line of the record's owner (of the
\* offending token, for an error)
Position ==
    [i \in 1..Depth |->
        IF i < Depth THEN stack[i].l.line
        ELSE IF Top.item.kind = "error" THEN Top.item.lex.line ELSE Top.ownerline]

\* mutant: the newest item overtakes the ones sent before it
EmitFirst(o, x) == <<x>> \o o

\* the order in which the consumer gets what is sent on the unbuffered t
Emit(o, x) == Append(o, x)

\* no call of Push or Pop yet
NoCall == [op |-> "none"]

Init ==
    /\ zone \in {[main |-> m, f |-> IF HasInclude(m) THEN f ELSE <<>>] :
                    m \in LineSeqs(MaxLines) \cup Scenarios, f \in IncFiles}
    /\ lexers = <<NewLexer(Text(zone.main))>>
    /\ stack = <<NewFrame(<<>>, 0, 1)>>
    /\ out = <<>>
    /\ tclosed = 0
    /\ handles = 0
    /\ rets = <<>>
    /\ rrset = <<>>
    /\ ret = NoCall

\* the same program on a text given character by character; the file "f"
\* holds one record
RawInit ==
    /\ zone \in {[main |-> <<d>>, f |-> <<RRLine(<<"b">>, NoWord, NoWord, FALSE, <<"A">>, Addr)>>] :
                    d \in RawInputs}
    /\ lexers = <<NewLexer(Text(zone.main))>>
    /\ stack = <<NewFrame(<<>>, 0, 1)>>
    /\ out = <<>>
    /\ tclosed = 0
    /\ handles = 0
    /\ rets = <<>>
    /\ rrset = <<>>
    /\ ret = NoCall

\* a lexer that is not blocked on a send scans the next character
LexStep(i) ==
    /\ lexers[i].pc # "closed"
    /\ lexers[i].outq = <<>>
    /\ lexers' = [lexers EXCEPT ![i] = LexAdvance(@)]
    /\ UNCHANGED <<rrset, ret, zone, stack, out, tclosed, handles, rets>>

\* for l := range c: a token is received and handled
ParseStep ==
    /\ Depth > 0 /\ Top.pc = "range"
    /\ TopLexer.outq # <<>>
    /\ LET fr == ParseToken(Top, Head(TopLexer.outq))
       IN  /\ fr.pc # "call"
           /\ stack' = SetTop(fr)
    /\ lexers' = TakeToken
    /\ handles' = IF Opens(Top, Head(TopLexer.outq)) THEN handles + 1 ELSE handles
    /\ UNCHANGED <<rrset, ret, zone, out, tclosed, rets>>

\* the token is the file name of a $INCLUDE: parseZone(r1, l.token, t, include+1)
IncludeCall ==
    /\ Depth > 0 /\ Top.pc = "range"
    /\ TopLexer.outq # <<>>
    /\ LET l == Head(TopLexer.outq)
           fr == ParseToken(Top, l)
       IN  /\ fr.pc = "call"
           /\ stack' = Append(SetTop(fr), NewFrame(l.token, fr.include + 1, Len(lexers) + 1))
           /\ lexers' = Append(TakeToken, NewLexer(Text(zone.f)))
    /\ handles' = handles + 1
    /\ UNCHANGED <<rrset, ret, zone, out, tclosed, rets>>

\* c is closed and drained: the loop ends and parseZone returns
RangeEnd ==
    /\ Depth > 0 /\ Top.pc = "range"
    /\ TopLexer.outq = <<>> /\ TopLexer.pc = "closed"
    /\ stack' = SetTop([Top EXCEPT !.pc = "ret"])
    /\ UNCHANGED <<rrset, ret, zone, lexers, out, tclosed, handles, rets>>

\* the invocation after setRR has received tok
Got(fr, tok) == [fr EXCEPT !.got = Append(@, IF tok.err # "" THEN "err" ELSE tok.value)]

\* a receive in setRR; a closed channel yields the zero lex
RdataRecv ==
    /\ Depth > 0 /\ Top.pc = "rdata"
    /\ \/ /\ TopLexer.outq # <<>>
          /\ stack' = SetTop(Got(RdataToken(Top, Head(TopLexer.outq)), Head(TopLexer.outq)))
          /\ lexers' = TakeToken
       \/ /\ TopLexer.outq = <<>> /\ TopLexer.pc = "closed"
          /\ stack' = SetTop(Got(RdataToken(Top, ZeroLex), ZeroLex))
          /\ UNCHANGED lexers
    /\ UNCHANGED <<rrset, ret, zone, out, tclosed, handles, rets>>

\* the invocation after its send on t was received: it returns after an
\* error, and goes on at st = _EXPECT_OWNER_DIR after an RR
AfterSend(fr) ==
    IF fr.then = "return"
    THEN [fr EXCEPT !.pc = "ret", !.item = NoItem, !.then = "none"]
    ELSE [fr EXCEPT !.pc = "range", !.st = "_EXPECT_OWNER_DIR",
                    !.item = NoItem, !.then = "none", !.rs = NoReader, !.got = <<>>]

\* the consumer receives the item the parser is sending on t
Deliver ==
    /\ Depth > 0 /\ Top.pc = "send"
    /\ out' = Emit(out, [item |-> Top.item, pos |-> Position])
    /\ stack' = SetTop(AfterSend(Top))
    /\ UNCHANGED <<rrset, ret, zone, lexers, tclosed, handles, rets>>

\* mutant: every invocation closes t when it returns
ClosesTAlways(fr) == TRUE

\* whether the deferred function of parseZone closes t
ClosesT(fr) == fr.include = 0

\* parseZone returns: the deferred close(t), then the caller goes on at
\* st = _EXPECT_OWNER_DIR
Return ==
    /\ Depth > 0 /\ Top.pc = "ret"
    /\ tclosed' = IF ClosesT(Top) THEN tclosed + 1 ELSE tclosed
    /\ stack' = IF Depth = 1 THEN <<>>
                ELSE [SubSeq(stack, 1, Depth - 1) EXCEPT
                         ![Depth - 1] = [@ EXCEPT !.pc = "range", !.st = "_EXPECT_OWNER_DIR"]]
    /\ UNCHANGED <<rrset, ret, zone, lexers, out, handles, rets>>

Next ==
    \/ \E i \in DOMAIN lexers : LexStep(i)
    \/ ParseStep
    \/ IncludeCall
    \/ RangeEnd
    \/ RdataRecv
    \/ Deliver
    \/ Return

Spec == Init /\ [][Next]_vars

\* the scheduler runs a goroutine that can take a step, and the consumer keeps
\* receiving from t: the program does not stop while a step is possible
FairSpec == Spec /\ WF_vars(Next)

RawSpec == RawInit /\ [][Next]_vars

(***************************************************************************)
(* ReadRR as the consumer: it receives once from t and returns.            *)
(***************************************************************************)
Nil == NoItem

\* Token{RR: r} and Token{Error: e}
Token(item) ==
    [RR |-> IF item.kind = "rr" THEN item ELSE Nil,
     Error |-> IF item.kind = "error" THEN item ELSE Nil]

\* the zero value of Token, which a receive from the closed t yields
ZeroToken == [RR |-> Nil, Error |-> Nil]

\* what ReadRR returns when r is what it received
ReadRR(r) ==
    IF r.Error # Nil THEN [RR |-> Nil, Error |-> r.Error]
    ELSE [RR |-> r.RR, Error |-> Nil]

\* r := <-ParseZone(q, filename), the parser being at a send on t
ReadRRRecv ==
    /\ out = <<>>
    /\ Depth > 0 /\ Top.pc = "send"
    /\ out' = Emit(out, [item |-> Top.item, pos |-> Position])
    /\ rets' = Append(rets, ReadRR(Token(Top.item)))
    /\ stack' = SetTop(AfterSend(Top))
    /\ UNCHANGED <<rrset, ret, zone, lexers, tclosed, handles>>

\* r := <-ParseZone(q, filename), t being closed with nothing sent on it
ReadRRRecvClosed ==
    /\ out = <<>>
    /\ tclosed > 0
    /\ out' = Emit(out, [item |-> NoItem, pos |-> <<>>])
    /\ rets' = Append(rets, ReadRR(ZeroToken))
    /\ UNCHANGED <<rrset, ret, zone, lexers, stack, tclosed, handles>>

ReadRRNext ==
    \/ \E i \in DOMAIN lexers : LexStep(i)
    \/ ParseStep
    \/ IncludeCall
    \/ RangeEnd
    \/ RdataRecv
    \/ ReadRRRecv
    \/ ReadRRRecvClosed
    \/ Return

ReadRRSpec == Init /\ [][ReadRRNext]_vars

EndsInNewline(text) == text # <<>> /\ text[Len(text)] = "\n"

\* ReadRR(strings.NewReader(s+"\n"), ""), as NewRR calls it for a text s
\* without a closing newline; here ReadRR(strings.NewReader(s), "") has
\* returned before
ReadRRNewline ==
    /\ Len(rets) = 1
    /\ ~EndsInNewline(Text(zone.main))
    /\ lexers' = <<NewLexer(Text(zone.main) \o <<"\n">>)>>
    /\ stack' = <<NewFrame(<<>>, 0, 1)>>
    /\ out' = <<>>
    /\ tclosed' = 0
    /\ UNCHANGED <<rrset, ret, zone, handles, rets>>

NewlineNext ==
    \/ ReadRRNext
    \/ ReadRRNewline

\* ReadRR on a text, then on the text with a newline appended
NewlineSpec == RawInit /\ [][NewlineNext]_vars

(***************************************************************************)
(* RRset.  A member is held as its header.                                 *)
(***************************************************************************)
NewRRset == <<>>

\* mutant: the class is not compared
PushAnyClass(set, r) ==
    IF Len(set) = 0 THEN [set |-> Append(set, r), ok |-> TRUE]
    ELSE IF set[1].Name # r.Name THEN [set |-> set, ok |-> FALSE]
    ELSE [set |-> Append(set, r), ok |-> TRUE]

\* Push: the set afterwards and the result
Push(set, r) ==
    IF Len(set) = 0 THEN [set |-> Append(set, r), ok |-> TRUE]
    ELSE IF set[1].Name # r.Name THEN [set |-> set, ok |-> FALSE]
    ELSE IF set[1].Class # r.Class THEN [set |-> set, ok |-> FALSE]
    ELSE [set |-> Append(set, r), ok |-> TRUE]

\* Pop: the set afterwards and the result
Pop(set) ==
    IF Len(set) = 0 THEN [set |-> set, r |-> Nil]
    ELSE [set |-> SubSeq(set, 1, Len(set) - 1), r |-> set[Len(set)]]

\* the RRs that are pushed
PushedRRs ==
    [Name : {<<"a",".">>, <<"A",".">>, <<"b",".">>}, Rrtype : {TypeA, TypeMX},
     Class : {ClassINET, ClassCHAOS}, Ttl : {5, DefaultTtl}]

RRsetInit ==
    /\ zone = [main |-> <<>>, f |-> <<>>]
    /\ lexers = <<>>
    /\ stack = <<>>
    /\ out = <<>>
    /\ tclosed = 0
    /\ handles = 0
    /\ rets = <<>>
    /\ rrset = NewRRset
    /\ ret = NoCall

CallPush(r) ==
    /\ Len(rrset) < MaxSet
    /\ rrset' = Push(rrset, r).set
    /\ ret' = [op |-> "Push", r |-> r, ok |-> Push(rrset, r).ok]
    /\ UNCHANGED <<zone, lexers, stack, out, tclosed, handles, rets>>

CallPop ==
    /\ rrset' = Pop(rrset).set
    /\ ret' = [op |-> "Pop", r |-> Pop(rrset).r]
    /\ UNCHANGED <<zone, lexers, stack, out, tclosed, handles, rets>>

RRsetNext ==
    \/ \E r \in PushedRRs : CallPush(r)
    \/ CallPop

RRsetSpec == RRsetInit /\ [][RRsetNext]_vars

(***************************************************************************)
(* What the input says, read off the description of its lines.             *)
(***************************************************************************)
IsRR(i) == out[i].item.kind = "rr"
IsError(i) == out[i].item.kind = "error"
RRs == {i \in DOMAIN out : IsRR(i)}
Errors == {i \in DOMAIN out : IsError(i)}
Hdr(i) == out[i].item.hdr

Last(s) == s[Len(s)]
Front(s) == SubSeq(s, 1, Len(s) - 1)

\* the file a position lies in, and the line there
FileAt(pos) == IF Len(pos) = 1 THEN zone.main ELSE zone.f
LineNo(pos) == Last(pos)
InFile(pos) == LineNo(pos) \in DOMAIN FileAt(pos)
Desc(pos) == FileAt(pos)[LineNo(pos)]

Num(w) == DigitsVal(w, 0)

TtlLinesBefore(pos) == {k \in 1..(LineNo(pos) - 1) : FileAt(pos)[k].kind = "ttl"}
Max(S) == CHOOSE x \in S : \A y \in S : y <= x

\* the default TTL in force at a position, counting only the file it lies in
FileDefTtl(pos) ==
    IF TtlLinesBefore(pos) = {} THEN DefaultTtl
    ELSE Num(FileAt(pos)[Max(TtlLinesBefore(pos))].arg)

\* the default TTL in force at a position when an included file starts with
\* the default TTL in force at its $INCLUDE
RECURSIVE InheritedDefTtl(_)
InheritedDefTtl(pos) ==
    IF TtlLinesBefore(pos) # {} THEN Num(FileAt(pos)[Max(TtlLinesBefore(pos))].arg)
    ELSE IF Len(pos) = 1 THEN DefaultTtl
    ELSE InheritedDefTtl(Front(pos))

OriginLinesBefore(pos) == {k \in 1..(LineNo(pos) - 1) : FileAt(pos)[k].kind = "origin"}

\* the origin in force at a position, inherited likewise
RECURSIVE InheritedOrigin(_)
InheritedOrigin(pos) ==
    IF OriginLinesBefore(pos) # {}
    THEN LET a == FileAt(pos)[Max(OriginLinesBefore(pos))].arg
         IN  IF IsFqdn(a) THEN a ELSE a \o <<".">>
    ELSE IF Len(pos) = 1 THEN <<".">>
    ELSE InheritedOrigin(Front(pos))

\* p comes before q in the depth-first order of the source
Before(p, q) ==
    \E k \in 1..(IF Len(p) < Len(q) THEN Len(p) ELSE Len(q)) :
        /\ p[k] < q[k]
        /\ \A j \in 1..(k - 1) : p[j] = q[j]

Finished == stack = <<>>

\* the last two tokens the parser has received from lexer i, in order; in
\* the course of a behaviour every pair of adjacent tokens is this pair once
Recv(i) == lexers[i].recv

\* e is a token of kind v (a token that carries an error has no kind)
IsTok(e, v) == e.lex.err = "" /\ e.lex.value = v

\* the parser has received the token with which the lexer of the reader r
\* reported an error; it is the last token that lexer sends
ErrRecv == Recv(1) # <<>> /\ Last(Recv(1)).lex.err # ""

\* the record of the RR out[j], which begins in the reader r, was ended by a
\* NEWLINE token that the lexer of r has sent
RecordEnded(j) == lexers[1].nlline >= LineNo(out[j].pos)

(***************************************************************************)
(* The claims.                                                             *)
(***************************************************************************)

\* C1: the output holds at most one ParseError, and a ParseError is the last
\* item sent: no RR and no second error follows it.
C1_ErrorIsLast == \A i \in Errors : i = Len(out)

\* C2: when the consumer keeps receiving, the pipeline does not get stuck and
\* the output channel is eventually closed, at the end of the input as well
\* as after an error.
C2_EventuallyClosed == <>(tclosed = 1 /\ Finished)

C2_Witness == tclosed = 1 /\ Finished /\ Errors # {} /\ Len(lexers) > 1

\* C3: t is closed exactly once, by the outermost parseZone and after every
\* nested one has returned, and nothing is sent on it afterwards.
C3_ClosedOnceByOutermost ==
    /\ [](tclosed <= 1 /\ (tclosed = 1 <=> Finished))
    /\ [][tclosed' # tclosed => (Len(stack) = 1 /\ stack[1].include = 0 /\ stack' = <<>>)]_vars
    /\ [][out' # out => tclosed = 0]_vars

C3_Witness == tclosed = 1 /\ Len(lexers) > 2 /\ Len(out) > 1

\* C4: RRs are emitted in source order, the RRs of an included file between
\* those before and those after its $INCLUDE.
C4_SourceOrder == \A i, j \in RRs : i < j => Before(out[i].pos, out[j].pos)

C4_Witness ==
    \E i, j, k \in RRs :
        /\ i < j /\ j < k
        /\ Len(out[i].pos) = 1 /\ Len(out[j].pos) > 1 /\ Len(out[k].pos) = 1

\* C5: the name of every emitted RR ends in a dot (a relative owner got the
\* origin appended), and the origin ends in a dot in every state.
C5_NamesQualified ==
    /\ \A i \in RRs :
          /\ Len(Hdr(i).Name) > 0 /\ Last(Hdr(i).Name) = "."
          /\ Last(Desc(out[i].pos).owner) # "." =>
                /\ Len(Hdr(i).Name) > Len(Desc(out[i].pos).owner)
                /\ SubSeq(Hdr(i).Name, 1, Len(Desc(out[i].pos).owner)) = Desc(out[i].pos).owner
    /\ \A n \in DOMAIN stack : Len(stack[n].origin) > 0 /\ Last(stack[n].origin) = "."

C5_Witness ==
    /\ \E i \in RRs : Last(Desc(out[i].pos).owner) # "."
    /\ \E n \in DOMAIN stack : stack[n].origin = <<"d", ".">> /\ stack[n].l.token = <<"d">>

C7_LineShapes ==
    /\ \A i \in Errors : InFile(out[i].pos) => Desc(out[i].pos) \notin RecordLines
    /\ \A i \in RRs :
          LET d == Desc(out[i].pos)
          IN  /\ d.ttl # NoWord => Hdr(i).Ttl = Num(d.ttl)
              /\ d.class # NoWord => Hdr(i).Class = Str_class[d.class]
              /\ d.class = NoWord => Hdr(i).Class = ClassINET
    /\ \A i, j \in RRs :
          (/\ Desc(out[i].pos).ttl # NoWord /\ Desc(out[i].pos).class # NoWord
           /\ [Desc(out[i].pos) EXCEPT !.swap = FALSE] = [Desc(out[j].pos) EXCEPT !.swap = FALSE])
              => Hdr(i) = Hdr(j)

C7_Witness ==
    \E i, j \in RRs :
        /\ Desc(out[i].pos).swap /\ ~Desc(out[j].pos).swap
        /\ [Desc(out[i].pos) EXCEPT !.swap = FALSE] = Desc(out[j].pos)
        /\ Desc(out[j].pos).ttl # NoWord /\ Desc(out[j].pos).class # NoWord

\* C8: the input of scenario S2 yields exactly one RR, www.miek.nl. with TTL
\* 300, and no error.
C8_ScenarioS2 ==
    (zone.main = ScenarioS2 /\ Finished) =>
        /\ Len(out) = 1 /\ IsRR(1)
        /\ Hdr(1).Name = <<"w","w","w",".","m","i","e","k",".","n","l",".">>
        /\ Hdr(1).Ttl = 300

\* C9: an included file starts with the origin and the default TTL in force
\* at its $INCLUDE: its RRs without a TTL get that default TTL, its relative
\* owners that origin.
C9_IncludeInherits ==
    \A i \in RRs :
        LET d == Desc(out[i].pos)
        IN  Len(out[i].pos) > 1 =>
                /\ d.ttl = NoWord => Hdr(i).Ttl = InheritedDefTtl(out[i].pos)
                /\ ~IsFqdn(d.owner) => Hdr(i).Name = d.owner \o InheritedOrigin(out[i].pos)

\* C10: no parseZone runs at an include depth above 7; a $INCLUDE met at
\* depth 7 gives the error "Too deeply nested $INCLUDE" and starts no parse;
\* a $INCLUDE of an existing file met at depth 0..6 starts the parse of it.
AtInclude ==
    /\ Len(stack) > 0 /\ Top.pc = "range" /\ Top.st = "_EXPECT_DIRINCLUDE"
    /\ TopLexer.outq # <<>>
    /\ Head(TopLexer.outq).value = "_STRING" /\ Head(TopLexer.outq).err = ""
    /\ FileExists(Head(TopLexer.outq).token)

C11_IncludeFilesClosed == tclosed = 1 => handles = 0

\* C12: when the consumer takes one item from t and then stops receiving, as
\* ReadRR does, no goroutine of the pipeline stays blocked forever on a send.
\* Once ReadRR has returned nothing receives from t any more, so a parseZone
\* that stands at a send on t stays there forever: there is no such state.
C12_NoSendWithoutReceiver ==
    ~(rets # <<>> /\ Depth > 0 /\ Top.pc = "send")

\* C13: ReadRR returns either an RR and no error, or no RR and an error,
\* never neither.
C13_RROrError ==
    \A i \in DOMAIN rets : (rets[i].RR # Nil) # (rets[i].Error # Nil)

\* C14: for a text that does not end in a newline, ReadRR on the text and
\* ReadRR on the text with a newline appended return the same RR, or no RR
\* both times.
C14_NewlineIrrelevant == Len(rets) = 2 => rets[1].RR = rets[2].RR

\* C15: no two BLANK tokens are adjacent in the token sequence of a lexer.
C15_NoAdjacentBlanks ==
    \A i \in DOMAIN lexers :
        Len(Recv(i)) = 2 => ~(IsTok(Recv(i)[1], "_BLANK") /\ IsTok(Recv(i)[2], "_BLANK"))

\* C16: a BLANK token is followed immediately by a NEWLINE token only if the
\* paren depth was above 0 when the BLANK was produced.
C16_NoBlankBeforeNewline ==
    \A i \in DOMAIN lexers :
        (Len(Recv(i)) = 2 /\ IsTok(Recv(i)[1], "_BLANK") /\ IsTok(Recv(i)[2], "_NEWLINE"))
            => Recv(i)[1].brace > 0

\* C17: a NEWLINE token is produced only at paren depth 0, and by a newline
\* character; a character read inside a comment produces no token (the
\* newline that ends the comment may, and so may the end of the input).
C17_NewlineOnlyAtDepthZero ==
    \A i \in DOMAIN lexers : \A k \in DOMAIN Recv(i) :
        /\ IsTok(Recv(i)[k], "_NEWLINE") => (Recv(i)[k].brace = 0 /\ Recv(i)[k].ch = "\n")
        /\ Recv(i)[k].incommt => Recv(i)[k].ch \in {"\n", ""}

C17_Witness ==
    \E i \in DOMAIN lexers :
        /\ lexers[i].ch = "\n" /\ lexers[i].incommt /\ lexers[i].brace > 0
        /\ \E k \in DOMAIN Recv(i) : IsTok(Recv(i)[k], "_BLANK") /\ Recv(i)[k].ch = "\n"

\* C18: a TXT record whose rdata is one quoted string yields an RR whose Txt
\* is exactly the characters between the quotes, spaces, tabs and ';'
\* included.
C18_QuotedPreserved ==
    (Finished /\ zone.main # <<>> /\ zone.main[1].kind = "quoted") =>
        /\ Len(out) = 1 /\ IsRR(1)
        /\ out[1].item.rdata.Txt = zone.main[1].arg

\* C19: when the lexer has reported a ')' read at paren depth 0, the output
\* ends with the ParseError "Extra closing brace", and no RR was emitted for
\* the record that holds the ')': every RR belongs to a record that ended
\* before it.
C19_ExtraClosingBrace ==
    (Finished /\ ErrRecv) =>
        /\ out # <<>> /\ IsError(Len(out))
        /\ out[Len(out)].item.err = "Extra closing brace"
        /\ \A j \in RRs : Len(out[j].pos) = 1 => RecordEnded(j)

\* C20: when the input has ended with a parenthesis still open, the output
\* holds a ParseError, and no RR was emitted for the record the input ended
\* in: every RR belongs to a record that was ended by a NEWLINE.
C20_OpenParenAtEnd ==
    (Finished /\ lexers[1].pc = "closed" /\ lexers[1].brace > 0) =>
        /\ Errors # {}
        /\ \A j \in RRs : Len(out[j].pos) = 1 => RecordEnded(j)

\* C21: when the input has ended inside a quoted string (a '"' was opened and
\* never closed), the output ends with a ParseError, and no RR was emitted
\* for a record that reaches the line of the opening '"'.
C21_UnterminatedQuote ==
    (Finished /\ lexers[1].pc = "closed" /\ lexers[1].quote) =>
        /\ out # <<>> /\ IsError(Len(out))
        /\ \A j \in RRs : Len(out[j].pos) = 1 => LineNo(out[j].pos) < lexers[1].qline

\* C22: a record line that begins with whitespace, after a record line with
\* an owner, is accepted: both lines yield an RR, and the second RR has the
\* name of the first; the lexer sends no OWNER token for the second line.
C22_OwnerCarryOver ==
    zone.main = ScenarioCarryOver =>
        /\ \A k \in DOMAIN Recv(1) : IsTok(Recv(1)[k], "_OWNER") => Recv(1)[k].lex.line = 1
        /\ Finished => /\ Len(out) = 2 /\ IsRR(1) /\ IsRR(2)
                       /\ Hdr(2).Name = Hdr(1).Name

\* the number of receives the reader of a fixed-arity type does for the
\* declared fields and the blanks between them
Fields(rrtype) ==
    CASE rrtype = TypeA -> 1
      [] rrtype = TypeMX -> 3
      [] rrtype = TypeSOA -> 13

\* what may follow the declared fields: an optional single BLANK, then
\* NEWLINE or the end of the input
AcceptedTails ==
    { <<"_NEWLINE">>, <<"_EOF">>, <<"_BLANK", "_NEWLINE">>, <<"_BLANK", "_EOF">> }

\* the tokens setRR has received after the declared fields of the record
RdataTail(fr) == SubSeq(fr.got, Fields(fr.h.Rrtype) + 1, Len(fr.got))

Rdata(type, ws) ==
    CASE type = <<"A">> -> [A |-> ParseIP(ws[1]).ip]
      [] type = <<"M","X">> -> [Pref |-> Num(ws[1]), Mx |-> ws[2] \o <<".">>]
      [] type = <<"S","O","A">> ->
            [Ns |-> ws[1] \o <<".">>, Mbox |-> ws[2] \o <<".">>, Serial |-> Num(ws[3]),
             Refresh |-> Num(ws[4]), Retry |-> Num(ws[5]), Expire |-> Num(ws[6]),
             Minttl |-> Num(ws[7])]

\* C24: a record of a fixed-arity type whose fields are spread over several
\* lines inside balanced parentheses yields exactly one RR, with the field
\* values the record has when written on one line; the SOA record of the
\* example yields ns. root. 1 2 3 4 5.
C24_ParenthesesSpanLines ==
    (Finished /\ zone.main[1].kind = "paren") =>
        /\ Len(out) = 1 /\ IsRR(1)
        /\ Hdr(1).Rrtype = Str_rr[zone.main[1].type]
        /\ out[1].item.rdata = Rdata(zone.main[1].type, zone.main[1].arg)

C24_Witness ==
    /\ Finished /\ Len(out) = 1 /\ IsRR(1)
    /\ Text(zone.main) =
          <<"m","i","e","k",".","n","l","."," ","I","N"," ","S","O","A"," ","n","s"," ",
            "r","o","o","t"," ","(","\n"," ","1"," ","2"," ","3"," ","4"," ","5","\n",")","\n">>
    /\ out[1].item.rdata.Serial = 1 /\ out[1].item.rdata.Minttl = 5

\* the step is a call of Push on a set that holds a member
PushCalled == ret'.op = "Push" /\ Len(rrset) > 0 /\ Len(rrset) < MaxSet

\* r has the name and the class of the first member
Agrees(r) == r.Name = rrset[1].Name /\ r.Class = rrset[1].Class

\* C25: every member of the RRset has the name and the class of the first
\* member; a Push of an RR that differs from the first member in name or
\* class returns false and leaves the set as it was; a Push of an RR that
\* agrees in both is accepted whatever its TTL.
C25_RRsetNameClass ==
    /\ [](\A i \in DOMAIN rrset :
            rrset[i].Name = rrset[1].Name /\ rrset[i].Class = rrset[1].Class)
    /\ [][(PushCalled /\ ~Agrees(ret'.r)) => (~ret'.ok /\ rrset' = rrset)]_vars
    /\ [][(PushCalled /\ Agrees(ret'.r)) => (ret'.ok /\ rrset' = Append(rrset, ret'.r))]_vars

C25_Witness ==
    /\ Len(rrset) = 2 /\ rrset[2].Ttl # rrset[1].Ttl
    /\ ret.op = "Push" /\ ~ret.ok /\ ret.r.Name = rrset[1].Name

\* C26: all members of the RRset have the same rrtype.
C26_RRsetRrtype == \A i \in DOMAIN rrset : rrset[i].Rrtype = rrset[1].Rrtype

\* a uint32, held as the 32-bit integer with the same bit pattern, is at most
\* 2^31-1 exactly if that integer is not negative
AtMostMaxTtl(x) == x >= 0

\* C27: the TTL of every emitted RR is at most 2^31-1: a TTL on a record line
\* or in a $TTL directive whose value is negative or above that bound is not
\* stored into an emitted header.
C27_TtlRange == \A i \in RRs : AtMostMaxTtl(Hdr(i).Ttl)

\* C28: a token the lexer sends after the RRTYPE token of a record and up to
\* the NEWLINE that ends the record is a STRING or a BLANK (or that NEWLINE):
\* also in a record continued over several lines inside parentheses there is
\* no OWNER, RRTYPE, CLASS or directive token in the rdata.
C28_RdataTokens ==
    \A i \in DOMAIN lexers : \A k \in DOMAIN Recv(i) :
        (Recv(i)[k].inrdata /\ Recv(i)[k].lex.err = "") =>
            Recv(i)[k].lex.value \in {"_STRING", "_BLANK", "_NEWLINE"}

\* the transition table of the parser: the token values a state accepts
Accepted(st) ==
    CASE st = "_EXPECT_OWNER_DIR" ->
            {"_NEWLINE", "_OWNER", "_DIRTTL", "_DIRORIGIN", "_DIRINCLUDE"}
      [] st \in {"_EXPECT_OWNER_BL", "_EXPECT_ANY_NOCLASS_BL", "_EXPECT_ANY_NOTTL_BL",
                 "_EXPECT_RRTYPE_BL", "_EXPECT_DIRTTL_BL", "_EXPECT_DIRORIGIN_BL",
                 "_EXPECT_DIRINCLUDE_BL"} -> {"_BLANK"}
      [] st = "_EXPECT_ANY" -> {"_RRTYPE", "_CLASS", "_STRING"}
      [] st = "_EXPECT_ANY_NOCLASS" -> {"_STRING", "_RRTYPE"}
      [] st = "_EXPECT_ANY_NOTTL" -> {"_CLASS", "_RRTYPE"}
      [] st = "_EXPECT_RRTYPE" -> {"_RRTYPE"}
      [] st \in {"_EXPECT_DIRTTL", "_EXPECT_DIRORIGIN", "_EXPECT_DIRINCLUDE"} -> {"_STRING"}
      [] OTHER -> {}

\* the step is a receive of the loop of parseZone in a state before
\* _EXPECT_RDATA
RangeRecv ==
    /\ Depth > 0 /\ Top.pc = "range" /\ Top.st # "_EXPECT_RDATA"
    /\ TopLexer.outq # <<>>
    /\ Len(lexers'[Top.c].outq) < Len(TopLexer.outq)

\* C29: in a state before _EXPECT_RDATA a token the state does not accept
\* makes parseZone send a ParseError (after which it returns); it is not
\* skipped.
C29_UnexpectedTokenIsError ==
    [][(RangeRecv /\ Head(TopLexer.outq).value \notin Accepted(Top.st)) =>
            /\ stack'[Depth].pc = "send"
            /\ stack'[Depth].item.kind = "error"
            /\ stack'[Depth].then = "return"]_vars

\* lexer i scans a character in the step, the character before it having
\* been an unescaped backslash outside a comment
EscapedScan(i) ==
    /\ lexers[i].pc = "scan" /\ lexers[i].outq = <<>> /\ lexers[i].rd # <<>>
    /\ lexers'[i].rd = Tail(lexers[i].rd)
    /\ lexers[i].escape /\ ~lexers[i].commt

\* C30: the character after a backslash read outside a comment, whatever it
\* is, is appended to the current word and has no other effect: no token is
\* sent and the word is kept, no comment starts, the quote state and the
\* paren depth stay as they are.
C30_EscapedCharVerbatim ==
    [][\A i \in DOMAIN lexers :
          EscapedScan(i) =>
              /\ lexers'[i].str = Append(lexers[i].str, Head(lexers[i].rd))
              /\ lexers'[i].outq = <<>> /\ lexers'[i].pc = "scan"
              /\ lexers'[i].commt = lexers[i].commt
              /\ lexers'[i].quote = lexers[i].quote
              /\ lexers'[i].brace = lexers[i].brace]_vars

\* C31: Push compares owner names without regard to letter case: an RR whose
\* name differs from the name of the first member only in letter case, and
\* whose class is that of the first member, is accepted into the set.
C31_PushIgnoresCase ==
    [][(/\ PushCalled
        /\ ToUpper(ret'.r.Name) = ToUpper(rrset[1].Name)
        /\ ret'.r.Class = rrset[1].Class)
            => (ret'.ok /\ rrset' = Append(rrset, ret'.r))]_vars

\* C32: the rdata of an emitted RR is built from tokens of the record of its
\* RRTYPE token only: when setRR returns an RR, the token after the RRTYPE
\* was not the NEWLINE that ends the record, and no token setRR received
\* before the last one was a NEWLINE or the end of the input.
C32_RdataWithinRecord ==
    (Depth > 0 /\ Top.pc = "send" /\ Top.item.kind = "rr") =>
        /\ Top.l.value # "_NEWLINE"
        /\ \A k \in 1..(Len(Top.got) - 1) : Top.got[k] \notin {"_NEWLINE", "_EOF"}

\* the parseZone invocation that started lexer i has returned
Returned(i) == \A n \in DOMAIN stack : stack[n].c # i

\* C33: a lexer is never left blocked on a send on its channel after the
\* parseZone invocation that started it has returned, normally or after a
\* ParseError.  Only that invocation receives from the channel, so a send
\* that is pending when it has returned is pending forever.
C33_LexerNotLeftBlocked ==
    \A i \in DOMAIN lexers : Returned(i) => lexers[i].outq = <<>>

\* C34: the lexer never drops accumulated text: whenever a step of a lexer
\* empties a non-empty current word str, that step sends a token whose text
\* is that word; in particular a word directly followed by ";" is sent
\* before the comment is skipped.
C34_NoTextDropped ==
    [][\A i \in DOMAIN lexers :
          (lexers[i].str # <<>> /\ lexers'[i].str = <<>>) =>
              \E k \in DOMAIN lexers'[i].outq :
                  lexers'[i].outq[k].token = lexers[i].str]_vars

====
